---------------------------- MODULE Spec2Model ----------------------------
(***************************************************************************)
(* GlobalSettingsComponent (modules/web/src/settings/global/component.ts)  *)
(* as a state machine.                                                     *)
(*                                                                         *)
(* The component runs on the single UI thread: every handler runs to       *)
(* completion, so each action below is one whole handler together with     *)
(* everything it calls synchronously.  What is asynchronous are the HTTP   *)
(* answers (canI, load, save) and the closing of the conflict dialog; they *)
(* are kept as pending requests and are delivered in any order.            *)
(*                                                                         *)
(* Handlers are written as operators from a state record to a state        *)
(* record, so that a handler calling another one (onSave_ -> save ->       *)
(* reload -> load_) is plain composition, in the order of the code.        *)
(***************************************************************************)
EXTENDS Integers, Sequences, FiniteSets

\* ------------------------------------------------------------------ bounds

\* Setting values are 1..MaxVal (what a backend answer or a user edit holds).
MaxVal == 2

\* User operations (form edits, save clicks, reload clicks, dialog closings,
\* leaving the page) explored in one run.
MaxOps == 2

\* ------------------------------------------------------------ value domain

\* null: what form.reset() leaves in every control.
Null == -1

\* The value a control is built with in ngOnInit ('' / 0 / false).
Initial == 0

Values == 1 .. MaxVal

\* enum Controls, the six scalar ones.
ScalarControls ==
  << "itemsPerPage", "labelsLimit", "clusterName", "logsAutorefreshInterval",
     "resourceAutorefreshInterval", "disableAccessDeniedNotification" >>

\* enum Controls: all seven controls of the form group.
Controls == { ScalarControls[i] : i \in 1 .. Len(ScalarControls) } \cup { "namespaceSettings" }

\* The controls the user edits in the explored runs.
EditedControls == { "itemsPerPage", "clusterName" }

\* {} as GlobalSettings
EmptySettings == [ k \in {} |-> Null ]

\* Object spread {...a, ...b}.
Merge(a, b) ==
  [ k \in (DOMAIN a) \cup (DOMAIN b) |-> IF k \in DOMAIN b THEN b[k] ELSE a[k] ]

\* The settings the backend holds when it answers a load: other clients write
\* them too, so an answer is any of these.
ServerSettings(v) ==
  [ itemsPerPage |-> v, labelsLimit |-> v, clusterName |-> v,
    logsAutoRefreshTimeInterval |-> v, resourceAutoRefreshTimeInterval |-> v,
    disableAccessDeniedNotifications |-> v, defaultNamespace |-> v,
    namespaceFallbackList |-> << v >> ]

\* ----------------------------------------------------------- error strings

\* 'settings changed since last reload', as its sequence of words.
concurrentChangeErr_ == << "settings", "changed", "since", "last", "reload" >>

\* The bodies of the error answers explored: strings as sequences of words.
Messages ==
  { concurrentChangeErr_,
    << "error:" >> \o concurrentChangeErr_ \o << "retry" >>,
    << "settings", "changed", "since", "last" >>,
    << "settings", "settings", "changed", "since", "last", "reload" >>,
    << "internal", "error" >>,
    << >> }

\* What onSaveError_ can be handed: nothing, an HttpErrorResponse whose error
\* body is a string, or one whose body is not a string (HttpErrorResponse.error
\* is `any`: null for an empty body, a parsed object for a JSON body, a
\* ProgressEvent when the request never reached the server).
SaveErrors ==
  { [ kind |-> "absent", error |-> << >> ], [ kind |-> "object", error |-> << >> ] }
    \cup { [ kind |-> "string", error |-> m ] : m \in Messages }

\* Whether s holds sub at 0-based position i.
MatchesAt(s, sub, i) ==
  /\ i + Len(sub) <= Len(s)
  /\ \A j \in 1 .. Len(sub) : s[i + j] = sub[j]

RECURSIVE IndexFrom(_, _, _)
IndexFrom(s, sub, i) ==
  IF i + Len(sub) > Len(s) THEN -1
  ELSE IF MatchesAt(s, sub, i) THEN i
  ELSE IndexFrom(s, sub, i + 1)

\* String.prototype.indexOf: the first position of sub in s, or -1.
IndexOf(s, sub) == IndexFrom(s, sub, 0)

\* ------------------------------------------------------------------- state

VARIABLES
  initialized,    \* ngOnInit has run
  destroyed,      \* the DestroyRef has fired
  settings,       \* this.settings
  hasLoadError,   \* this.hasLoadError
  form,           \* this.form: control name -> value
  helper,         \* SettingsHelperService: the settings object it holds
  store,          \* GlobalSettingsService: the settings it last loaded
  latestCanI,     \* canI() of the most recent load_: "none", "pending", "yes", "no"
  latestLoad,     \* load() of the most recent load_: "none", "pending", "ok", "err"
  olderCanI,      \* canI() requests of earlier load_ calls still unanswered
  olderLoad,      \* load() requests of earlier load_ calls still unanswered
  saves,          \* save requests still unanswered: their payloads, in order of issue
  dialogs,        \* open conflict dialogs: the payload of the save each one is about
  calls,          \* what the last step called, in order
  lastEvent,      \* the event the last step handled
  ops,            \* user operations so far
  cleanLoad,      \* the last load() to answer succeeded, and no form edit since
  track           \* the history of the save requests and dialogs outstanding

vars ==
  << initialized, destroyed, settings, hasLoadError, form, helper, store, latestCanI,
     latestLoad, olderCanI, olderLoad, saves, dialogs, calls, lastEvent, ops,
     cleanLoad, track >>

\* The state a handler reads and writes, with the calls of the step begun anew.
State ==
  [ destroyed |-> destroyed, settings |-> settings, hasLoadError |-> hasLoadError,
    form |-> form, helper |-> helper, store |-> store, latestCanI |-> latestCanI,
    latestLoad |-> latestLoad, olderCanI |-> olderCanI, olderLoad |-> olderLoad,
    saves |-> saves, dialogs |-> dialogs, calls |-> << >> ]

Called(s, c) == [ s EXCEPT !.calls = Append(@, c) ]

\* Sequence q without its i-th element.
Without(q, i) == SubSeq(q, 1, i - 1) \o SubSeq(q, i + 1, Len(q))

\* ------------------------------------------------- collaborators' behaviour

\* The onSettingsChange subscription of ngOnInit: s => (this.settings = s),
\* until the DestroyRef fires.
onSettingsChange(s, emitted) ==
  IF s.destroyed THEN s ELSE [ s EXCEPT !.settings = emitted ]

\* SettingsHelperService, `set settings`: merges into the held object and
\* emits the result on onSettingsChange.
HelperSetSettings(s, v) ==
  LET merged == Merge(s.helper, v)
  IN  onSettingsChange([ s EXCEPT !.helper = merged ], merged)

\* SettingsHelperService.reset(): drops the held object, emits nothing.
HelperReset(s) == [ Called(s, "helper.reset") EXCEPT !.helper = EmptySettings ]

\* ------------------------------------------------------------ the component

\* get externalSettings_(): the eight getters of the settings store.
externalSettings_(s) ==
  [ itemsPerPage |-> s.store.itemsPerPage,
    labelsLimit |-> s.store.labelsLimit,
    clusterName |-> s.store.clusterName,
    logsAutoRefreshTimeInterval |-> s.store.logsAutoRefreshTimeInterval,
    resourceAutoRefreshTimeInterval |-> s.store.resourceAutoRefreshTimeInterval,
    disableAccessDeniedNotifications |-> s.store.disableAccessDeniedNotifications,
    defaultNamespace |-> s.store.defaultNamespace,
    namespaceFallbackList |-> s.store.namespaceFallbackList ]

\* lodash isEqual on two plain objects: the same number of own keys, and every
\* key of a is a key of b with an equal value.
isEqual(a, b) ==
  /\ Cardinality(DOMAIN a) = Cardinality(DOMAIN b)
  /\ \A k \in DOMAIN a : k \in DOMAIN b /\ a[k] = b[k]

\* onFormChange_(): the six scalar controls go to the helper service.
onFormChange_(s) ==
  HelperSetSettings(Called(s, "onFormChange_"),
    [ itemsPerPage |-> s.form["itemsPerPage"],
      clusterName |-> s.form["clusterName"],
      disableAccessDeniedNotifications |-> s.form["disableAccessDeniedNotification"],
      labelsLimit |-> s.form["labelsLimit"],
      logsAutoRefreshTimeInterval |-> s.form["logsAutorefreshInterval"],
      resourceAutoRefreshTimeInterval |-> s.form["resourceAutorefreshInterval"] ])

\* The valueChanges subscription of ngOnInit: onFormChange_ on every emission,
\* until the DestroyRef fires.
valueChanges(s) == IF s.destroyed THEN s ELSE onFormChange_(s)

\* form.reset(): every control becomes null, then the group emits valueChanges.
FormReset(s) ==
  valueChanges([ Called(s, "form.reset") EXCEPT !.form = [ c \in Controls |-> Null ] ])

\* load_(): asks canI() and load(); both answer later.
load_(s) ==
  [ Called(Called(s, "canI"), "load") EXCEPT
      !.olderCanI = @ + (IF s.latestCanI = "pending" THEN 1 ELSE 0),
      !.olderLoad = @ + (IF s.latestLoad = "pending" THEN 1 ELSE 0),
      !.latestCanI = "pending",
      !.latestLoad = "pending" ]

\* reload() without its load_().
reload_NoLoad(s) == HelperReset(FormReset(Called(s, "reload")))

\* reload()
reload(s) == load_(HelperReset(FormReset(Called(s, "reload"))))

\* canSave() with || for &&.
canSave_OrLoadError(s) == ~isEqual(s.settings, externalSettings_(s)) \/ ~s.hasLoadError

\* canSave()
canSave(s) == ~isEqual(s.settings, externalSettings_(s)) /\ ~s.hasLoadError

\* save(), up to the subscription: the request goes out with this.settings.
save(s) == [ Called(s, "save") EXCEPT !.saves = Append(@, s.settings) ]

\* onSave_ reloading before it saves again.
onSave_ReloadFirst(s, result) ==
  IF result = "true" THEN save(reload(s)) ELSE reload(s)

\* onSave_ testing `if (result)` for `if (result === true)`.
onSave_Truthy(s, result) ==
  reload(IF result \in { "true", "object" } THEN save(s) ELSE s)

\* onSave_(result); result is "object" (the saved settings), "true", "false"
\* or "undefined".
onSave_(s, result) == reload(IF result = "true" THEN save(s) ELSE s)

\* The tap of save() without the notification.
saveTap_NoNotification(s) == Called(load_(s), "title.update")

\* The tap of save() with the two hooks ahead of load_().
saveTap_HooksFirst(s) ==
  load_(Called(Called(s, "title.update"), "onSettingsUpdate.next"))

\* The tap of save(): what runs when the save request answers with success.
saveTap(s) ==
  Called(Called(load_(s), "title.update"), "onSettingsUpdate.next")

\* The condition of onSaveError_ with `=== 0` for `!== -1`.
saveErrorKind_MarkerAtStart(err) ==
  IF err.kind = "absent" THEN "other"
  ELSE IF err.kind = "object" THEN "throw"
  ELSE IF IndexOf(err.error, concurrentChangeErr_) = 0 THEN "conflict"
  ELSE "other"

\* The condition of onSaveError_: err && err.error.indexOf(marker) !== -1.
\* "throw" when err.error has no indexOf (the body is not a string).
saveErrorKind(err) ==
  IF err.kind = "absent" THEN "other"
  ELSE IF err.kind = "object" THEN "throw"
  ELSE IF IndexOf(err.error, concurrentChangeErr_) # -1 THEN "conflict"
  ELSE "other"

\* onSaveError_(err) and what the rest of the pipeline of save() does with
\* what it returns: the dialog's afterClosed() answers later; of(false) goes
\* to onSave_ at once; an exception ends the subscription with an error
\* nothing handles.  payload is the settings of the failed request.
onSaveError_(s, err, payload) ==
  CASE saveErrorKind(err) = "conflict" ->
         [ Called(s, "dialog.open") EXCEPT !.dialogs = Append(@, payload) ]
    [] saveErrorKind(err) = "other" -> onSave_(s, "false")
    [] OTHER -> s

\* onLoad_() writing the controls without {emitEvent: false}.
onLoad_Emitting(s) ==
  LET s1 == [ Called(s, "onLoad_") EXCEPT !.settings = externalSettings_(s) ]
      s2 == HelperSetSettings(s1, s1.settings)
  IN  valueChanges(
        [ s2 EXCEPT
            !.form["itemsPerPage"] = s2.settings.itemsPerPage,
            !.form["labelsLimit"] = s2.settings.labelsLimit,
            !.form["clusterName"] = s2.settings.clusterName,
            !.form["logsAutorefreshInterval"] = s2.settings.logsAutoRefreshTimeInterval,
            !.form["resourceAutorefreshInterval"] = s2.settings.resourceAutoRefreshTimeInterval,
            !.form["disableAccessDeniedNotification"] =
               s2.settings.disableAccessDeniedNotifications ])

\* onLoad_()
onLoad_(s) ==
  LET s1 == [ Called(s, "onLoad_") EXCEPT !.settings = externalSettings_(s) ]
      s2 == HelperSetSettings(s1, s1.settings)
  IN  [ s2 EXCEPT
          !.form["itemsPerPage"] = s2.settings.itemsPerPage,
          !.form["labelsLimit"] = s2.settings.labelsLimit,
          !.form["clusterName"] = s2.settings.clusterName,
          !.form["logsAutorefreshInterval"] = s2.settings.logsAutoRefreshTimeInterval,
          !.form["resourceAutorefreshInterval"] = s2.settings.resourceAutoRefreshTimeInterval,
          !.form["disableAccessDeniedNotification"] =
             s2.settings.disableAccessDeniedNotifications ]

\* onLoadError_()
onLoadError_(s) == [ Called(s, "onLoadError_") EXCEPT !.hasLoadError = TRUE ]

\* The canI subscription of load_(): canI => (this.hasLoadError = !canI).
onCanI(s, canI) == [ s EXCEPT !.hasLoadError = ~canI ]

\* The form group ngOnInit builds.
InitialForm(s) ==
  [ c \in Controls |->
      IF c = "namespaceSettings"
      THEN [ defaultNamespace |-> externalSettings_(s).defaultNamespace,
             fallbackList |-> externalSettings_(s).namespaceFallbackList ]
      ELSE Initial ]

\* ----------------------------------------------------------------- actions

\* No dialog was closed in the last step.
NoneClosed ==
  [ some |-> FALSE, payload |-> EmptySettings, loadOut |-> FALSE, editedOpen |-> FALSE ]

\* The component as constructed: the field initialisers of the class, a fresh
\* helper service, and a store holding the settings it starts with.  The form
\* is built in ngOnInit; until then its controls stand at null here.
Init ==
  /\ initialized = FALSE
  /\ destroyed = FALSE
  /\ settings = EmptySettings
  /\ hasLoadError = FALSE
  /\ form = [ c \in Controls |-> Null ]
  /\ helper = EmptySettings
  /\ store = ServerSettings(1)
  /\ latestCanI = "none"
  /\ latestLoad = "none"
  /\ olderCanI = 0
  /\ olderLoad = 0
  /\ saves = << >>
  /\ dialogs = << >>
  /\ calls = << >>
  /\ lastEvent = [ type |-> "constructor" ]
  /\ ops = 0
  /\ cleanLoad = FALSE
  /\ track = [ on |-> FALSE, saves |-> << >>, dialogs |-> << >>, closed |-> NoneClosed ]

\* Whether, after the step of event ev that left s, the last load() to answer
\* succeeded and the user has not edited the form since.
CleanAfter(s, ev) ==
  IF ev.type = "loadSuccess" THEN TRUE
  ELSE IF ev.type \in { "loadError", "formEdit" } THEN FALSE
  ELSE cleanLoad

\* The history kept (when track.on) of every save request and conflict dialog
\* outstanding after the step of event ev that left s, in the order of saves
\* and dialogs: whether a load() was unanswered when the request was issued,
\* and whether the form was edited while its dialog was open; and, of the
\* dialog the step closed, these two and the payload of its request.
TrackAfter(s, ev) ==
  IF ~track.on THEN track
  ELSE
    LET fresh == [ loadOut |-> (latestLoad = "pending" \/ olderLoad > 0),
                   editedOpen |-> FALSE ]
        base == [ track EXCEPT !.closed = NoneClosed ]
    IN  CASE ev.type = "save" -> [ base EXCEPT !.saves = Append(@, fresh) ]
          [] ev.type = "saveSuccess" -> [ base EXCEPT !.saves = Without(@, ev.at) ]
          [] ev.type = "saveError" ->
               [ base EXCEPT
                   !.saves = Without(@, ev.at),
                   !.dialogs = IF Len(s.dialogs) > Len(dialogs)
                               THEN Append(@, track.saves[ev.at]) ELSE @ ]
          [] ev.type = "dialogClose" ->
               [ base EXCEPT
                   !.dialogs = Without(@, ev.at),
                   !.saves = IF ev.result = "true" THEN Append(@, fresh) ELSE @,
                   !.closed = [ some |-> TRUE,
                                payload |-> dialogs[ev.at],
                                loadOut |-> track.dialogs[ev.at].loadOut,
                                editedOpen |-> track.dialogs[ev.at].editedOpen ] ]
          [] ev.type = "formEdit" ->
               [ base EXCEPT
                   !.dialogs = [ k \in 1 .. Len(@) |-> [ @[k] EXCEPT !.editedOpen = TRUE ] ] ]
          [] OTHER -> base

\* The step from the state before to s, the state the handlers of event ev left.
Commit(s, ev) ==
  /\ destroyed' = s.destroyed
  /\ settings' = s.settings
  /\ hasLoadError' = s.hasLoadError
  /\ form' = s.form
  /\ helper' = s.helper
  /\ store' = s.store
  /\ latestCanI' = s.latestCanI
  /\ latestLoad' = s.latestLoad
  /\ olderCanI' = s.olderCanI
  /\ olderLoad' = s.olderLoad
  /\ saves' = s.saves
  /\ dialogs' = s.dialogs
  /\ calls' = s.calls
  /\ lastEvent' = ev
  /\ cleanLoad' = CleanAfter(s, ev)
  /\ track' = TrackAfter(s, ev)

\* A user can act on the component while it is on the page.
UserCan == initialized /\ ~destroyed /\ ops < MaxOps

\* ngOnInit(): builds the form, loads, subscribes.
ngOnInit ==
  /\ ~initialized
  /\ initialized' = TRUE
  /\ ops' = ops
  /\ Commit(load_([ State EXCEPT !.form = InitialForm(State) ]), [ type |-> "ngOnInit" ])

\* The user changes one control of the form; the group emits valueChanges.
FormEdit ==
  /\ UserCan
  /\ \E c \in EditedControls, v \in Values :
       Commit(valueChanges([ State EXCEPT !.form[c] = v ]), [ type |-> "formEdit" ])
  /\ ops' = ops + 1
  /\ UNCHANGED initialized

\* The user clicks Save.
ClickSave ==
  /\ UserCan
  /\ Commit(save(State), [ type |-> "save" ])
  /\ ops' = ops + 1
  /\ UNCHANGED initialized

\* The user clicks Reload.
ClickReload ==
  /\ UserCan
  /\ Commit(reload(State), [ type |-> "reload" ])
  /\ ops' = ops + 1
  /\ UNCHANGED initialized

\* canI() of the most recent load_ answers.
CanIAnswer ==
  /\ latestCanI = "pending"
  /\ \E canI \in BOOLEAN :
       Commit(onCanI([ State EXCEPT !.latestCanI = IF canI THEN "yes" ELSE "no" ], canI),
              [ type |-> "canI", canI |-> canI ])
  /\ UNCHANGED << initialized, ops >>

\* canI() of an earlier load_ answers.
OlderCanIAnswer ==
  /\ olderCanI > 0
  /\ \E canI \in BOOLEAN :
       Commit(onCanI([ State EXCEPT !.olderCanI = @ - 1 ], canI),
              [ type |-> "canI", canI |-> canI ])
  /\ UNCHANGED << initialized, ops >>

\* load() of the most recent load_ succeeds: the store takes the settings of
\* the answer, then calls onLoad_.
LoadSuccess ==
  /\ latestLoad = "pending"
  /\ \E v \in Values :
       Commit(onLoad_([ State EXCEPT !.latestLoad = "ok", !.store = ServerSettings(v) ]),
              [ type |-> "loadSuccess" ])
  /\ UNCHANGED << initialized, ops >>

\* load() of an earlier load_ succeeds.
OlderLoadSuccess ==
  /\ olderLoad > 0
  /\ \E v \in Values :
       Commit(onLoad_([ State EXCEPT !.olderLoad = @ - 1, !.store = ServerSettings(v) ]),
              [ type |-> "loadSuccess" ])
  /\ UNCHANGED << initialized, ops >>

\* load() of the most recent load_ fails: the store calls onLoadError_.
LoadError ==
  /\ latestLoad = "pending"
  /\ Commit(onLoadError_([ State EXCEPT !.latestLoad = "err" ]),
            [ type |-> "loadError" ])
  /\ UNCHANGED << initialized, ops >>

\* load() of an earlier load_ fails.
OlderLoadError ==
  /\ olderLoad > 0
  /\ Commit(onLoadError_([ State EXCEPT !.olderLoad = @ - 1 ]),
            [ type |-> "loadError" ])
  /\ UNCHANGED << initialized, ops >>

\* A save request answers with success: the tap, then onSave_ with the answer.
SaveSuccess ==
  /\ \E i \in 1 .. Len(saves) :
       Commit(onSave_(saveTap([ State EXCEPT !.saves = Without(@, i) ]), "object"),
              [ type |-> "saveSuccess", at |-> i ])
  /\ UNCHANGED << initialized, ops >>

\* A save request answers with an error: catchError hands it to onSaveError_.
SaveError ==
  /\ \E i \in 1 .. Len(saves), err \in SaveErrors :
       Commit(onSaveError_([ State EXCEPT !.saves = Without(@, i) ], err, saves[i]),
              [ type |-> "saveError", err |-> err, at |-> i ])
  /\ UNCHANGED << initialized, ops >>

\* The user closes a conflict dialog: afterClosed() emits the result, which
\* goes to onSave_.  The dialog outlives the component.
DialogClose ==
  /\ initialized
  /\ ops < MaxOps
  /\ \E i \in 1 .. Len(dialogs), result \in { "true", "false", "undefined" } :
       Commit(onSave_([ State EXCEPT !.dialogs = Without(@, i) ], result),
              [ type |-> "dialogClose", result |-> result, at |-> i ])
  /\ ops' = ops + 1
  /\ UNCHANGED initialized

\* The user leaves the page: the DestroyRef fires.
Destroy ==
  /\ UserCan
  /\ Commit([ State EXCEPT !.destroyed = TRUE ], [ type |-> "destroy" ])
  /\ ops' = ops + 1
  /\ UNCHANGED initialized

Next ==
  \/ ngOnInit
  \/ FormEdit
  \/ ClickSave
  \/ ClickReload
  \/ CanIAnswer
  \/ OlderCanIAnswer
  \/ LoadSuccess
  \/ OlderLoadSuccess
  \/ LoadError
  \/ OlderLoadError
  \/ SaveSuccess
  \/ SaveError
  \/ DialogClose
  \/ Destroy

Spec == Init /\ [][Next]_vars

\* The component some way into its life, with the history of its save
\* requests kept from here on: ngOnInit has run, canI() has answered true and
\* load() has succeeded with any of the backend's settings, the user has then
\* edited one control and clicked Save, and the request is out.
RetryInit ==
  \E v \in Values, c \in EditedControls, w \in Values :
    LET s0 == [ destroyed |-> FALSE, settings |-> EmptySettings, hasLoadError |-> FALSE,
                form |-> [ k \in Controls |-> Null ], helper |-> EmptySettings,
                store |-> ServerSettings(1), latestCanI |-> "none",
                latestLoad |-> "none", olderCanI |-> 0, olderLoad |-> 0,
                saves |-> << >>, dialogs |-> << >>, calls |-> << >> ]
        s1 == load_([ s0 EXCEPT !.form = InitialForm(s0) ])
        s2 == onCanI([ s1 EXCEPT !.latestCanI = "yes" ], TRUE)
        s3 == onLoad_([ s2 EXCEPT !.latestLoad = "ok", !.store = ServerSettings(v) ])
        s4 == valueChanges([ s3 EXCEPT !.form[c] = w ])
        s5 == save([ s4 EXCEPT !.calls = << >> ])
    IN  /\ initialized = TRUE
        /\ destroyed = s5.destroyed
        /\ settings = s5.settings
        /\ hasLoadError = s5.hasLoadError
        /\ form = s5.form
        /\ helper = s5.helper
        /\ store = s5.store
        /\ latestCanI = s5.latestCanI
        /\ latestLoad = s5.latestLoad
        /\ olderCanI = s5.olderCanI
        /\ olderLoad = s5.olderLoad
        /\ saves = s5.saves
        /\ dialogs = s5.dialogs
        /\ calls = s5.calls
        /\ lastEvent = [ type |-> "save" ]
        /\ ops = 0
        /\ cleanLoad = FALSE
        /\ track = [ on |-> TRUE,
                     saves |-> << [ loadOut |-> FALSE, editedOpen |-> FALSE ] >>,
                     dialogs |-> << >>,
                     closed |-> NoneClosed ]

\* Every step of the component once ngOnInit has run.
NextRetry ==
  \/ FormEdit
  \/ ClickSave
  \/ ClickReload
  \/ CanIAnswer
  \/ OlderCanIAnswer
  \/ LoadSuccess
  \/ OlderLoadSuccess
  \/ LoadError
  \/ OlderLoadError
  \/ SaveSuccess
  \/ SaveError
  \/ DialogClose
  \/ Destroy

\* The runs that begin with a save request out, MaxOps user operations on.
SpecRetry == RetryInit /\ [][NextRetry]_vars

\* ------------------------------------------------------------------ claims

\* How often c is among the calls q.
Count(q, c) == Cardinality({ i \in 1 .. Len(q) : q[i] = c })

\* The positions of c among the calls q.
Positions(q, c) == { i \in 1 .. Len(q) : q[i] = c }

\* Whether every c comes before every d among the calls q.
Before(q, c, d) == \A i \in Positions(q, c), j \in Positions(q, d) : i < j

\* Whether the text of err holds the concurrent-change marker somewhere.
HoldsMarker(err) ==
  /\ err.kind = "string"
  /\ \E i \in 1 .. Len(err.error) - Len(concurrentChangeErr_) + 1 :
       SubSeq(err.error, i, i + Len(concurrentChangeErr_) - 1) = concurrentChangeErr_

\* C1: in every reachable state canSave() is true exactly when this.settings
\* differs from what the settings store holds and hasLoadError is false.
C1_CanSaveIffDiffersAndNoLoadError ==
  canSave(State) <=> (settings # store /\ ~hasLoadError)

\* C1 witness: after a load that succeeded the user has edited the form, the
\* edited settings differ from the store's, and canSave() is true.
C1_Witness ==
  /\ lastEvent.type = "formEdit"
  /\ latestLoad = "ok"
  /\ DOMAIN settings = DOMAIN store
  /\ settings # store
  /\ ~hasLoadError
  /\ canSave(State)

\* C2: when a save request fails, the conflict dialog is opened (once) if and
\* only if the error is there and its text holds the marker.
C2_DialogIffMarker ==
  lastEvent.type = "saveError" =>
    /\ Count(calls, "dialog.open") = (IF HoldsMarker(lastEvent.err) THEN 1 ELSE 0)
    /\ HoldsMarker(lastEvent.err) <=> Len(dialogs) > 0 /\ calls = << "dialog.open" >>

\* C2 witness: a save failed with the marker inside a longer text, and the
\* dialog is open.
C2_Witness ==
  /\ lastEvent.type = "saveError"
  /\ lastEvent.err.kind = "string"
  /\ lastEvent.err.error = << "error:" >> \o concurrentChangeErr_ \o << "retry" >>
  /\ Count(calls, "dialog.open") = 1
  /\ Len(dialogs) = 1

\* C3: closing the conflict dialog with true issues exactly one save request
\* and then reloads (once), the save before the reload.
C3_ConfirmSavesOnceThenReloads ==
  (lastEvent.type = "dialogClose" /\ lastEvent.result = "true") =>
    /\ Count(calls, "save") = 1
    /\ Count(calls, "reload") = 1
    /\ Before(calls, "save", "reload")
    /\ calls[1] = "save"
    /\ Before(calls, "reload", "form.reset")
    /\ Before(calls, "form.reset", "helper.reset")
    /\ Before(calls, "helper.reset", "load")
    /\ Count(calls, "load") = 1
    /\ Len(saves) >= 1

\* C3 witness: a conflict dialog has been closed with true and the retried
\* save request is out.
C3_Witness ==
  /\ lastEvent.type = "dialogClose"
  /\ lastEvent.result = "true"
  /\ Len(saves) = 1
  /\ latestLoad = "pending"

\* C4, as claimed: after a successful save answer no load request goes out
\* before the title update and the notification.
C4_HooksBeforeAnyLoad ==
  lastEvent.type = "saveSuccess" =>
    /\ Count(calls, "title.update") = 1
    /\ Count(calls, "onSettingsUpdate.next") = 1
    /\ Before(calls, "title.update", "load")
    /\ Before(calls, "title.update", "canI")
    /\ Before(calls, "onSettingsUpdate.next", "load")
    /\ Before(calls, "onSettingsUpdate.next", "canI")

\* C4, amended: after a successful save answer the handler first issues one
\* load request of its own (canI, load), then updates the title, then sends
\* the notification, and only then reloads: the two hooks come before the
\* load request of the reload, and after the handler's own.
C4_HooksBetweenTheTwoLoads ==
  lastEvent.type = "saveSuccess" =>
    /\ Len(calls) >= 5
    /\ SubSeq(calls, 1, 5) =
         << "canI", "load", "title.update", "onSettingsUpdate.next", "reload" >>
    /\ Count(calls, "title.update") = 1
    /\ Count(calls, "onSettingsUpdate.next") = 1
    /\ Count(calls, "load") = 2
    /\ Count(calls, "canI") = 2
    /\ calls[Len(calls)] = "load"

\* C4 witness: a save answered with success, and both load requests of the
\* step are still unanswered.
C4_Witness ==
  /\ lastEvent.type = "saveSuccess"
  /\ latestLoad = "pending"
  /\ olderLoad >= 1
  /\ Count(calls, "title.update") = 1

\* C5, as claimed: right after reload() has returned canSave() is false.
C5_ReloadLeavesNothingToSave ==
  Count(calls, "reload") >= 1 => ~canSave(State)

\* C6, as claimed: once canI() and load() of the most recent load_ have both
\* answered, and canI() answered false or load() failed, hasLoadError is true
\* and canSave() is false.
C6_FailedLoadSetsLoadError ==
  ( /\ latestCanI \in { "yes", "no" }
    /\ latestLoad \in { "ok", "err" }
    /\ (latestCanI = "no" \/ latestLoad = "err") )
  => (hasLoadError /\ ~canSave(State))

\* C7, as claimed: once the DestroyRef has fired no handler of the component
\* runs: settings, hasLoadError and form stay as they are and the component
\* calls nothing.
C7_NothingRunsAfterDestroy ==
  [][ destroyed =>
        /\ settings' = settings
        /\ hasLoadError' = hasLoadError
        /\ form' = form
        /\ calls' = << >> ]_vars

\* C8, as claimed: when a save fails with an error that does not hold the
\* marker, or the conflict dialog is closed with false or undefined, no save
\* request goes out and reload runs exactly once.
C8_OtherFailureReloadsOnce ==
  ( \/ lastEvent.type = "saveError" /\ ~HoldsMarker(lastEvent.err)
    \/ lastEvent.type = "dialogClose" /\ lastEvent.result # "true" )
  => (Count(calls, "save") = 0 /\ Count(calls, "reload") = 1)

\* C9: a successful save answer reloads within its own step (form reset,
\* helper reset, a new load request, in this order, as the last calls of the
\* step) and issues no save request.
C9_SuccessReloadsInTheSameStep ==
  lastEvent.type = "saveSuccess" =>
    /\ Count(calls, "save") = 0
    /\ Count(calls, "reload") = 1
    /\ Count(calls, "form.reset") = 1
    /\ Count(calls, "helper.reset") = 1
    /\ Before(calls, "reload", "form.reset")
    /\ Before(calls, "form.reset", "helper.reset")
    /\ Len(calls) >= 3
    /\ SubSeq(calls, Len(calls) - 2, Len(calls)) = << "helper.reset", "canI", "load" >>
    /\ form = [ c \in Controls |-> Null ]
    /\ helper = EmptySettings
    /\ latestCanI = "pending"
    /\ latestLoad = "pending"

\* C9 witness: a save request the user made after an edit has answered with
\* success, and the form is reset with a load request out.
C9_Witness ==
  /\ lastEvent.type = "saveSuccess"
  /\ ops >= 2
  /\ ~destroyed
  /\ form = [ c \in Controls |-> Null ]
  /\ latestLoad = "pending"
  /\ saves = << >>

\* C10: a load that succeeds leaves this.settings equal to the store's
\* settings and the six scalar controls at the store's values, does not run
\* onFormChange_, and leaves hasLoadError as it was.
C10_LoadFillsFormSilently ==
  [][ lastEvent'.type = "loadSuccess" =>
        /\ settings' = store'
        /\ form'["itemsPerPage"] = store'.itemsPerPage
        /\ form'["labelsLimit"] = store'.labelsLimit
        /\ form'["clusterName"] = store'.clusterName
        /\ form'["logsAutorefreshInterval"] = store'.logsAutoRefreshTimeInterval
        /\ form'["resourceAutorefreshInterval"] = store'.resourceAutoRefreshTimeInterval
        /\ form'["disableAccessDeniedNotification"] = store'.disableAccessDeniedNotifications
        /\ form'["namespaceSettings"] = form["namespaceSettings"]
        /\ Count(calls', "onFormChange_") = 0
        /\ calls' = << "onLoad_" >>
        /\ hasLoadError' = hasLoadError ]_vars

\* C10 witness: a load has succeeded while hasLoadError was set and after a
\* user operation; the form holds the store's values, other than the ones the
\* component started with.
C10_Witness ==
  /\ lastEvent.type = "loadSuccess"
  /\ hasLoadError
  /\ ops >= 1
  /\ store = ServerSettings(2)
  /\ settings = store
  /\ form["clusterName"] = 2
  /\ form["labelsLimit"] = 2

\* C13: the title update and the "settings updated" notification are each
\* called once in the step of a successful save answer and in no other step.
C13_HooksOncePerSuccessOnly ==
  /\ Count(calls, "title.update") = (IF lastEvent.type = "saveSuccess" THEN 1 ELSE 0)
  /\ Count(calls, "onSettingsUpdate.next") = (IF lastEvent.type = "saveSuccess" THEN 1 ELSE 0)

\* C13 witness: a save answered with success after an earlier one had failed
\* with a conflict, and both hooks were called in the step.
C13_Witness ==
  /\ lastEvent.type = "saveSuccess"
  /\ Len(dialogs) = 1
  /\ Count(calls, "title.update") = 1
  /\ Count(calls, "onSettingsUpdate.next") = 1

\* C14, as claimed: the step that ends a save attempt (its answer when no
\* dialog is opened for it, else the closing of its dialog) runs reload
\* exactly once, whatever the outcome; no other step reloads for it.
C14_EverySaveEndsInOneReload ==
  ( \/ lastEvent.type = "saveSuccess"
    \/ lastEvent.type = "saveError" /\ Count(calls, "dialog.open") = 0
    \/ lastEvent.type = "dialogClose" )
  => Count(calls, "reload") = 1

\* No load(), save request or conflict dialog is outstanding.
Quiescent ==
  /\ initialized
  /\ latestLoad # "pending"
  /\ olderLoad = 0
  /\ saves = << >>
  /\ dialogs = << >>

\* C12: when nothing is outstanding, the last load to answer succeeded and
\* the form was not edited since, this.settings is deep-equal to the store's
\* settings and canSave() is false.
C12_CleanAtQuiescence ==
  (Quiescent /\ cleanLoad) =>
    /\ settings = store
    /\ isEqual(settings, externalSettings_(State))
    /\ ~canSave(State)

\* C12 witness: after an edit and a save that answered with success, and with
\* no load error, every load has answered, the last one with success and with
\* other settings than the component started with.
C12_Witness ==
  /\ Quiescent
  /\ cleanLoad
  /\ ops = 2
  /\ lastEvent.type = "loadSuccess"
  /\ ~hasLoadError
  /\ ~destroyed
  /\ store = ServerSettings(2)
  /\ settings = store

\* C11, as claimed: when a conflict dialog is closed with true, no load() was
\* unanswered when its save request was issued and the form was not edited
\* while it was open, the save request the closing issues (the last one out)
\* carries the payload of the request that hit the conflict.
C11_RetryCarriesTheSamePayload ==
  ( /\ track.on
    /\ lastEvent.type = "dialogClose"
    /\ lastEvent.result = "true"
    /\ track.closed.some
    /\ ~track.closed.loadOut
    /\ ~track.closed.editedOpen )
  => (Len(saves) >= 1 /\ saves[Len(saves)] = track.closed.payload)

=============================================================================
